---- MODULE Spec2Model ----
(***************************************************************************)
(* Usage metering and quota enforcement of the mailmates backend:          *)
(* usageTrackerService (both storage layouts: the counters embedded as an  *)
(* array in the user document, and one document per period in the          *)
(* usageRecords subcollection), the billable request handlers of           *)
(* api/generate.ts and userService.storeUser.                              *)
(*                                                                         *)
(* The document store is modelled as a map from document references to     *)
(* snapshots.  A transaction (db.runTransaction) is a read step (tx.get)   *)
(* followed by a commit step; a write committed to a document another      *)
(* in-flight transaction has read makes that transaction re-run its body   *)
(* (retry on conflict).  A plain set() is one atomic write.                *)
(***************************************************************************)
EXTENDS Integers, Sequences, FiniteSets, TLC

VARIABLES
    layout,     \* "embedded" or "perDoc": which version of the tracker runs
    store,      \* document reference -> snapshot [exists, data]
    calls,      \* caller slot -> the tracker call in flight in it
    clock,      \* the instant "new Date()" returns
    scenario,   \* the inputs fixed at the start of a behaviour
    stats,      \* history: outcomes of the calls completed so far
    last,       \* history: the call completed most recently
    reqs,       \* request slot -> state of the HTTP request handled in it
    login       \* state of the userService.storeUser call in flight

vars == <<layout, store, calls, clock, scenario, stats, last, reqs, login>>

---------------------------------------------------------------------------
(* Bounds of the model *)

\* concurrent callers of the tracker
NumCallers == 2
\* calls fired beyond the limit in the race scenario (K = L + ExtraCalls)
ExtraCalls == 1
\* instants per calendar month (days and hours are abstracted to ticks)
TicksPerMonth == 2
\* the calendar year of instant 0
BaseYear == 2024
\* the first instant of a behaviour (month index 11: December of BaseYear)
FirstDate == 22
\* the highest count a sequential behaviour drives a tier to
SeqCountCap == 5
\* the highest count a behaviour over several users and periods drives a
\* tier to
FrameCountCap == 1

---------------------------------------------------------------------------
(* Values *)

\* JavaScript null (limit: number | null, remaining: number | null)
Null == -1

Max(a, b) == IF a >= b THEN a ELSE b

Layouts == {"embedded", "perDoc"}
PlanTypes == {"free", "pro", "unlimited"}
UsageTiers == {"basic", "advanced"}
ResetReasons == {"monthly", "subscription"}

Users == {"u1", "u2"}
T0 == FirstDate
\* instants the callers pass: two of one month or of adjacent months, and
\* one a month after the first
Dates == {T0, T0 + 1, T0 + TicksPerMonth}

PLAN_LIMITS ==
    [free      |-> [basic |-> 20,    advanced |-> 0],
     pro       |-> [basic |-> 5000,  advanced |-> 200],
     unlimited |-> [basic |-> 12000, advanced |-> 1600]]

BASIC_MODELS ==
    {"gpt-4o-mini", "gpt-4o mini", "gpt-4o", "gpt-5-mini", "gpt-5 mini",
     "gpt-5-nano", "gpt-5 nano", "default"}

ADVANCED_MODELS ==
    {"gpt-5", "gpt5", "claude-4", "claude 4", "claude-3.5", "claude-3.5-sonnet",
     "claude", "gemini-2.5-pro", "gemini 2.5 pro", "gemini-2.0", "gemini",
     "llama-3.1", "llama", "deepseek-v3", "deepseek"}

\* model identifiers the callers send: known basic, known advanced, mixed
\* case, unknown
Models == {"gpt-4o-mini", "claude", "GPT-4o", "mystery-model"}

\* JavaScript null or undefined where a string is expected
Undefined == "<undefined>"

\* (value || ''): null, undefined and the empty string give the empty string
orEmpty(value) == IF value = Undefined THEN "" ELSE value

\* the strings with upper-case letters among those the callers send, with
\* their lower-case forms
LowerCaseOf ==
    [x \in {"GPT-4o", "Claude", "GPT-5-NANO", "PRO", "Pro", "UNLIMITED", "Unlimited",
            "FREE", "Enterprise"} |->
        CASE x = "GPT-4o"     -> "gpt-4o"
          [] x = "Claude"     -> "claude"
          [] x = "GPT-5-NANO" -> "gpt-5-nano"
          [] x = "PRO"        -> "pro"
          [] x = "Pro"        -> "pro"
          [] x = "UNLIMITED"  -> "unlimited"
          [] x = "Unlimited"  -> "unlimited"
          [] x = "FREE"       -> "free"
          [] x = "Enterprise" -> "enterprise"]

\* String.prototype.toLowerCase on the strings the callers send
toLowerCase(s) == IF s \in DOMAIN LowerCaseOf THEN LowerCaseOf[s] ELSE s

\* model identifiers a caller may pass to resolveUsageTier: known basic and
\* advanced ones, mixed case, unknown, padded, empty, null
ModelInputs ==
    BASIC_MODELS \cup ADVANCED_MODELS \cup
    {"GPT-4o", "Claude", "GPT-5-NANO", "mystery-model", " gpt-4o-mini", "gpt-4o-mini ",
     "basic", "", Undefined}

\* plan strings a caller may pass to resolvePlanType
PlanInputs ==
    {"free", "pro", "unlimited", "PRO", "Pro", "UNLIMITED", "Unlimited", "FREE",
     "Enterprise", "premium", " pro", "pro ", "", Undefined}

---------------------------------------------------------------------------
(* Pure functions of usageTrackerService *)

getUTCFullYear(date) == BaseYear + (date \div (12 * TicksPerMonth))
getUTCMonth(date) == (date \div TicksPerMonth) % 12

\* Date.UTC(year, month, 1, 0, 0, 0, 0); month may be 12 and rolls over
DateUTC(year, month) == ((year - BaseYear) * 12 + month) * TicksPerMonth

padStart2(n) == IF n < 10 THEN "0" \o ToString(n) ELSE ToString(n)

\* formatPeriodKey as a plausible slip: the month left 0-based
formatPeriodKeyZeroBased(date) ==
    ToString(getUTCFullYear(date)) \o "-" \o padStart2(getUTCMonth(date))

formatPeriodKey(date) ==
    ToString(getUTCFullYear(date)) \o "-" \o padStart2(getUTCMonth(date) + 1)

\* getNextMonthlyReset as a plausible slip: the month wrapped by hand and
\* the year not carried
getNextMonthlyResetNoCarry(date) ==
    DateUTC(getUTCFullYear(date), (getUTCMonth(date) + 1) % 12)

getNextMonthlyReset(date) == DateUTC(getUTCFullYear(date), getUTCMonth(date) + 1)

normalizeDate(value, fallback) == IF value = Null THEN fallback ELSE value

\* resolvePlanType as a plausible slip: the input compared as it comes
resolvePlanTypeCaseSensitive(planType) ==
    LET p == orEmpty(planType)
    IN  IF p = "pro" THEN "pro" ELSE IF p = "unlimited" THEN "unlimited" ELSE "free"

resolvePlanType(planType) ==
    LET p == toLowerCase(orEmpty(planType))
    IN  IF p = "pro" THEN "pro" ELSE IF p = "unlimited" THEN "unlimited" ELSE "free"

\* resolveUsageTier as a plausible slip: an unknown model falls to the less
\* constrained tier
resolveUsageTierFailOpen(model) ==
    LET normalized == toLowerCase(orEmpty(model))
    IN  IF normalized \in ADVANCED_MODELS THEN "advanced" ELSE "basic"

resolveUsageTier(model) ==
    LET normalized == toLowerCase(orEmpty(model))
    IN  IF normalized \in BASIC_MODELS THEN "basic"
        ELSE IF normalized \in ADVANCED_MODELS THEN "advanced"
        ELSE "advanced"

buildCounterSkeleton(userId, planType, now) ==
    [userId          |-> userId,
     periodKey       |-> formatPeriodKey(now),
     planType        |-> planType,
     basicCount      |-> 0,
     advancedCount   |-> 0,
     updatedAt       |-> now,
     lastResetAt     |-> now,
     lastResetReason |-> "monthly"]

\* computeRemaining as a plausible slip: the difference not floored at 0
computeRemainingNoFloor(limit, usage) ==
    IF limit = Null THEN Null ELSE limit - usage

\* computeRemaining as a plausible slip: the null test left out
computeRemainingNoNull(limit, usage) == Max(limit - usage, 0)

computeRemaining(limit, usage) ==
    IF limit = Null THEN Null ELSE Max(limit - usage, 0)

coercePlanType(value, fallback) ==
    IF value \in PlanTypes THEN value ELSE fallback

TierCount(counter, tier) ==
    IF tier = "basic" THEN counter.basicCount ELSE counter.advancedCount

\* the decision rule as a plausible slip: ">" for ">="
LimitReachedOffByOne(limit, currentUsage) ==
    limit # Null /\ currentUsage > limit

\* limit !== null && currentUsage >= limit
LimitReached(limit, currentUsage) ==
    limit # Null /\ currentUsage >= limit

---------------------------------------------------------------------------
(* The document store *)

NoDoc == [exists |-> FALSE]
Doc(data) == [exists |-> TRUE, data |-> data]

UserRef(userId) == <<userId, "user">>
UsageRef(userId, periodKey) == <<userId, periodKey>>

PeriodKeys == {formatPeriodKey(d) : d \in Dates}
DocRefs == {UserRef(u) : u \in Users} \cup {UsageRef(u, p) : u \in Users, p \in PeriodKeys}

\* ref.set(fields, { merge: true }): the fields given replace those of the
\* same name (an array field is replaced whole), the others are kept
MergeSet(snap, fields) ==
    IF snap.exists
    THEN [f \in (DOMAIN snap.data) \cup (DOMAIN fields) |->
            IF f \in DOMAIN fields THEN fields[f] ELSE snap.data[f]]
    ELSE fields

\* a user document as userService.storeUser creates it (no usage field yet)
NewUserData(userId) ==
    [uid |-> userId, email |-> userId, lastLoginAt |-> T0, planType |-> "free"]

UsageField(userData) ==
    IF "usage" \in DOMAIN userData THEN userData.usage ELSE <<>>

deserializeUsageRecords(records, userId, fallbackPlan, now) ==
    [i \in 1 .. Len(records) |->
        [userId          |-> records[i].userId,
         periodKey       |-> records[i].periodKey,
         planType        |-> coercePlanType(records[i].planType, fallbackPlan),
         basicCount      |-> records[i].basicCount,
         advancedCount   |-> records[i].advancedCount,
         updatedAt       |-> normalizeDate(records[i].updatedAt, now),
         lastResetAt     |-> normalizeDate(records[i].lastResetAt, now),
         lastResetReason |-> records[i].lastResetReason]]

serializeUsageRecords(records) ==
    [i \in 1 .. Len(records) |->
        [userId          |-> records[i].userId,
         periodKey       |-> records[i].periodKey,
         planType        |-> records[i].planType,
         basicCount      |-> records[i].basicCount,
         advancedCount   |-> records[i].advancedCount,
         updatedAt       |-> records[i].updatedAt,
         lastResetAt     |-> records[i].lastResetAt,
         lastResetReason |-> records[i].lastResetReason]]

\* findIndex as a plausible slip: the record of the period never found
findIndexNever(records, periodKey) == 0

\* findIndex as a plausible slip: the first record taken whatever its period
findIndexFirst(records, periodKey) ==
    IF Len(records) > 0 THEN 1 ELSE 0

\* Array.prototype.findIndex on periodKey, 1-based; 0 when there is none
findIndex(records, periodKey) ==
    LET hits == {i \in 1 .. Len(records) : records[i].periodKey = periodKey}
    IN  IF hits = {} THEN 0 ELSE CHOOSE i \in hits : \A j \in hits : i <= j

---------------------------------------------------------------------------
(* The bodies of the tracker's operations.  Each takes the snapshot its     *)
(* tx.get returned and yields what the body does with it:                   *)
(*   throws - the body threw;  write - it called tx.set;                    *)
(*   data   - the document data after the set;  result - the value returned *)

Void == [void |-> TRUE]
Outcome(throws, write, data, result) ==
    [throws |-> throws, write |-> write, data |-> data, result |-> result]

\* the increment as a plausible slip: the count written to basicCount
\* whatever the tier
WithTierCountBasicOnly(counter, tier, n) ==
    [counter EXCEPT !.basicCount = n]

WithTierCount(counter, tier, n) ==
    IF tier = "basic" THEN [counter EXCEPT !.basicCount = n]
    ELSE [counter EXCEPT !.advancedCount = n]

\* the check-then-increment both layouts share, from "const currentUsage"
\* to the returned result; counter is the loaded or synthesized counter and
\* limit the tier's limit, a number or null
decideWithLimit(counter, plan, tier, limit, now) ==
    LET currentUsage == TierCount(counter, tier)
        updatedUsage == currentUsage + 1
        updated      == [WithTierCount(counter, tier, updatedUsage) EXCEPT !.updatedAt = now]
    IN  IF LimitReached(limit, currentUsage)
        THEN [allowed |-> FALSE,
              counter |-> counter,
              result  |-> [allowed   |-> FALSE,
                           tier      |-> tier,
                           planType  |-> plan,
                           limit     |-> limit,
                           remaining |-> 0,
                           counts    |-> [basic |-> counter.basicCount,
                                          advanced |-> counter.advancedCount],
                           resetsOn  |-> getNextMonthlyReset(now)]]
        ELSE [allowed |-> TRUE,
              counter |-> updated,
              result  |-> [allowed   |-> TRUE,
                           tier      |-> tier,
                           planType  |-> plan,
                           limit     |-> limit,
                           remaining |-> computeRemaining(limit, updatedUsage),
                           counts    |-> [basic |-> updated.basicCount,
                                          advanced |-> updated.advancedCount],
                           resetsOn  |-> getNextMonthlyReset(now)]]

\* const planLimits = PLAN_LIMITS[plan]; const limit = planLimits[tier]
\* the decision as a plausible slip: the limits of the default plan applied
\* whatever plan the caller passed
consumeDecisionDefaultPlan(counter, plan, tier, now) ==
    decideWithLimit(counter, plan, tier, PLAN_LIMITS["free"][tier], now)

consumeDecision(counter, plan, tier, now) ==
    decideWithLimit(counter, plan, tier, PLAN_LIMITS[plan][tier], now)

\* consumeUsage as a plausible slip: the loaded or synthesized counter
\* written back also when the call is rejected
consumeUsagePerDocWritesRejected(snap, userId, plan, model, requestedAt) ==
    LET tier      == resolveUsageTier(model)
        now       == requestedAt
        periodKey == formatPeriodKey(now)
        counter   ==
            IF snap.exists
            THEN [snap.data EXCEPT !.periodKey   = periodKey,
                                   !.userId      = userId,
                                   !.planType    = plan,
                                   !.updatedAt   = normalizeDate(snap.data.updatedAt, now),
                                   !.lastResetAt = normalizeDate(snap.data.lastResetAt, now)]
            ELSE [buildCounterSkeleton(userId, plan, now) EXCEPT !.periodKey = periodKey]
        d == consumeDecision(counter, plan, tier, now)
    IN  IF d.allowed
        THEN Outcome(FALSE, TRUE, MergeSet(snap, d.counter), d.result)
        ELSE Outcome(FALSE, TRUE, MergeSet(snap, d.counter), d.result)

\* consumeUsage, one document per period
consumeUsagePerDoc(snap, userId, plan, model, requestedAt) ==
    LET tier      == resolveUsageTier(model)
        now       == requestedAt
        periodKey == formatPeriodKey(now)
        counter   ==
            IF snap.exists
            THEN [snap.data EXCEPT !.periodKey   = periodKey,
                                   !.userId      = userId,
                                   !.planType    = plan,
                                   !.updatedAt   = normalizeDate(snap.data.updatedAt, now),
                                   !.lastResetAt = normalizeDate(snap.data.lastResetAt, now)]
            ELSE [buildCounterSkeleton(userId, plan, now) EXCEPT !.periodKey = periodKey]
        d == consumeDecision(counter, plan, tier, now)
    IN  IF d.allowed
        THEN Outcome(FALSE, TRUE, MergeSet(snap, d.counter), d.result)
        ELSE Outcome(FALSE, FALSE, <<>>, d.result)

\* consumeUsage, counters embedded in the user document
consumeUsageEmbedded(snap, userId, plan, model, requestedAt) ==
    LET tier          == resolveUsageTier(model)
        now           == requestedAt
        periodKey     == formatPeriodKey(now)
        userData      == snap.data
        usageRecords  == deserializeUsageRecords(UsageField(userData), userId, plan, now)
        existingIndex == findIndex(usageRecords, periodKey)
        counter       ==
            IF existingIndex > 0
            THEN [usageRecords[existingIndex] EXCEPT !.periodKey = periodKey,
                                                     !.userId    = userId,
                                                     !.planType  = plan,
                                                     !.updatedAt = now]
            ELSE [buildCounterSkeleton(userId, plan, now) EXCEPT !.periodKey = periodKey]
        d == consumeDecision(counter, plan, tier, now)
        written ==
            IF existingIndex > 0
            THEN [usageRecords EXCEPT ![existingIndex] = d.counter]
            ELSE Append(usageRecords, d.counter)
    IN  IF ~snap.exists
        THEN Outcome(TRUE, FALSE, <<>>, Void)
        ELSE IF d.allowed
        THEN Outcome(FALSE, TRUE,
                     MergeSet(snap, [usage |-> serializeUsageRecords(written)]), d.result)
        ELSE Outcome(FALSE, FALSE, <<>>, d.result)

\* the guarded decrement as a plausible slip: the "> 0" tests left out
rollbackDecrementUnguarded(counter, tier) ==
    [changed |-> TRUE,
     counter |-> WithTierCount(counter, tier, TierCount(counter, tier) - 1)]

\* if (tier === 'basic' && counter.basicCount > 0) ... else return
rollbackDecrement(counter, tier) ==
    IF tier = "basic" /\ counter.basicCount > 0
    THEN [changed |-> TRUE, counter |-> [counter EXCEPT !.basicCount = @ - 1]]
    ELSE IF tier = "advanced" /\ counter.advancedCount > 0
    THEN [changed |-> TRUE, counter |-> [counter EXCEPT !.advancedCount = @ - 1]]
    ELSE [changed |-> FALSE, counter |-> counter]

\* rollbackUsage, one document per period; newDate is what new Date() returns
rollbackUsagePerDoc(snap, userId, model, occurredAt, newDate) ==
    LET tier      == resolveUsageTier(model)
        periodKey == formatPeriodKey(occurredAt)
        counter   ==
            [snap.data EXCEPT !.periodKey   = periodKey,
                              !.userId      = userId,
                              !.updatedAt   = normalizeDate(snap.data.updatedAt, occurredAt),
                              !.lastResetAt = normalizeDate(snap.data.lastResetAt, occurredAt)]
        dec       == rollbackDecrement(counter, tier)
    IN  IF ~snap.exists
        THEN Outcome(FALSE, FALSE, <<>>, Void)
        ELSE IF dec.changed
        THEN Outcome(FALSE, TRUE,
                     MergeSet(snap, [dec.counter EXCEPT !.updatedAt = newDate]), Void)
        ELSE Outcome(FALSE, FALSE, <<>>, Void)

\* rollbackUsage, counters embedded in the user document
rollbackUsageEmbedded(snap, userId, model, occurredAt, newDate) ==
    LET tier          == resolveUsageTier(model)
        periodKey     == formatPeriodKey(occurredAt)
        usageRecords  == deserializeUsageRecords(UsageField(snap.data), userId, "free", occurredAt)
        existingIndex == findIndex(usageRecords, periodKey)
        counter       == [usageRecords[existingIndex] EXCEPT !.periodKey = periodKey,
                                                             !.userId    = userId]
        dec           == rollbackDecrement(counter, tier)
        written       == [usageRecords EXCEPT
                             ![existingIndex] = [dec.counter EXCEPT !.updatedAt = newDate]]
    IN  IF ~snap.exists
        THEN Outcome(FALSE, FALSE, <<>>, Void)
        ELSE IF existingIndex = 0
        THEN Outcome(FALSE, FALSE, <<>>, Void)
        ELSE IF dec.changed
        THEN Outcome(FALSE, TRUE,
                     MergeSet(snap, [usage |-> serializeUsageRecords(written)]), Void)
        ELSE Outcome(FALSE, FALSE, <<>>, Void)

\* the counter a reset writes as a plausible slip: the skeleton written as
\* built, its reason left at "monthly"
resetCounterSkeletonOnly(userId, plan, reason, resetDate) ==
    [buildCounterSkeleton(userId, plan, resetDate) EXCEPT
        !.periodKey       = formatPeriodKey(resetDate)]

\* the counter resetUsage writes
resetCounter(userId, plan, reason, resetDate) ==
    [buildCounterSkeleton(userId, plan, resetDate) EXCEPT
        !.periodKey       = formatPeriodKey(resetDate),
        !.lastResetReason = reason,
        !.lastResetAt     = resetDate]

\* resetUsage, one document per period: docRef.set(counter, { merge: true })
resetUsagePerDoc(snap, userId, plan, reason, resetDate) ==
    Outcome(FALSE, TRUE, MergeSet(snap, resetCounter(userId, plan, reason, resetDate)), Void)

\* resetUsage, counters embedded in the user document
resetUsageEmbedded(snap, userId, plan, reason, resetDate) ==
    LET periodKey     == formatPeriodKey(resetDate)
        usageRecords  == deserializeUsageRecords(UsageField(snap.data), userId, plan, resetDate)
        counter       == resetCounter(userId, plan, reason, resetDate)
        existingIndex == findIndex(usageRecords, periodKey)
        written       ==
            IF existingIndex > 0
            THEN [usageRecords EXCEPT ![existingIndex] = counter]
            ELSE Append(usageRecords, counter)
    IN  IF ~snap.exists
        THEN Outcome(TRUE, FALSE, <<>>, Void)
        ELSE Outcome(FALSE, TRUE,
                     MergeSet(snap, [usage |-> serializeUsageRecords(written)]), Void)

---------------------------------------------------------------------------
(* Tracker calls in flight *)

Callers == 1 .. NumCallers

Idle == [op |-> "idle"]

\* a call that has run its tx.get (or is about to run its plain set)
Call(op, userId, plan, model, at, reason, snap) ==
    [op |-> op, userId |-> userId, plan |-> plan, model |-> model, at |-> at,
     reason |-> reason, phase |-> "read", snap |-> snap]

\* the document a call reads and writes: the user document found by
\* getUserQuery, or the period's document (getUsageDocRef)
TxRef(call) ==
    IF layout = "embedded"
    THEN UserRef(call.userId)
    ELSE UsageRef(call.userId, formatPeriodKey(call.at))

\* what the call does with the snapshot it holds
Body(call) ==
    IF call.op = "consume"
    THEN IF layout = "embedded"
         THEN consumeUsageEmbedded(call.snap, call.userId, call.plan, call.model, call.at)
         ELSE consumeUsagePerDoc(call.snap, call.userId, call.plan, call.model, call.at)
    ELSE IF call.op = "rollback"
    THEN IF layout = "embedded"
         THEN rollbackUsageEmbedded(call.snap, call.userId, call.model, call.at, clock)
         ELSE rollbackUsagePerDoc(call.snap, call.userId, call.model, call.at, clock)
    ELSE IF layout = "embedded"
         THEN resetUsageEmbedded(call.snap, call.userId, call.plan, call.reason, call.at)
         ELSE resetUsagePerDoc(call.snap, call.userId, call.plan, call.reason, call.at)

\* the isolation lost: the read and the write of a call as a plain get
\* followed by a plain set
ConflictsNever(call, ref) == FALSE

\* a write to ref conflicts with a transaction that has read ref and not
\* yet committed: db.runTransaction makes that transaction run again
Conflicts(call, ref) ==
    call.op # "idle" /\ call.phase = "read" /\ TxRef(call) = ref

\* the slots after slot i wrote ref and completed
AfterWrite(cs, i, ref) ==
    [j \in DOMAIN cs |->
        IF j = i THEN Idle
        ELSE IF Conflicts(cs[j], ref)
        THEN [cs[j] EXCEPT !.phase = "retry", !.snap = NoDoc]
        ELSE cs[j]]

AfterReturn(cs, i) == [cs EXCEPT ![i] = Idle]

Conflicted(cs, i, ref) == \E j \in DOMAIN cs : j # i /\ Conflicts(cs[j], ref)

\* the stored counter of (userId, periodKey) in the layout in use
HasCounter(userId, periodKey) ==
    IF layout = "embedded"
    THEN /\ store[UserRef(userId)].exists
         /\ findIndex(UsageField(store[UserRef(userId)].data), periodKey) > 0
    ELSE store[UsageRef(userId, periodKey)].exists

StoredCounter(userId, periodKey) ==
    IF layout = "embedded"
    THEN LET usage == UsageField(store[UserRef(userId)].data)
         IN  usage[findIndex(usage, periodKey)]
    ELSE store[UsageRef(userId, periodKey)].data

StoredCount(userId, periodKey, tier) ==
    IF HasCounter(userId, periodKey)
    THEN TierCount(StoredCounter(userId, periodKey), tier)
    ELSE 0

NoLast == [op |-> "none"]
NoStats == [pending |-> 0, allowed |-> 0, rejected |-> 0, thrown |-> 0, conflict |-> FALSE]
NoScenario == [name |-> "none"]
NoLogin == [pc |-> "idle"]
\* a request slot no request has arrived in
NoReq == [pc |-> "new"]

InitStore == [ref \in DocRefs |->
                IF ref[2] = "user" THEN Doc(NewUserData(ref[1])) ELSE NoDoc]

\* the state after construction: every user has a user document and no
\* counter; nothing is in flight
InitBase ==
    /\ layout \in Layouts
    /\ store = InitStore
    /\ calls = [i \in Callers |-> Idle]
    /\ clock = T0
    /\ last = NoLast
    /\ reqs = [r \in Callers |-> NoReq]
    /\ login = NoLogin

\* a store that never runs an invalidated transaction again
TxRetryStalls(i) ==
    /\ calls[i].op # "idle"
    /\ calls[i].phase = "retry"
    /\ UNCHANGED <<layout, store, calls, clock, scenario, stats, last, reqs, login>>

\* a transaction whose snapshot was invalidated runs its body again: tx.get
TxRetry(i) ==
    /\ calls[i].op # "idle"
    /\ calls[i].phase = "retry"
    /\ calls' = [calls EXCEPT ![i] = [@ EXCEPT !.phase = "read",
                                               !.snap = store[TxRef(calls[i])]]]
    /\ UNCHANGED <<layout, store, clock, scenario, stats, last, reqs, login>>

---------------------------------------------------------------------------
(* The race: K = L + ExtraCalls concurrent consumeUsage calls of one user, *)
(* one plan, one model and one instant, the counter absent at the start    *)

RaceScenarios ==
    {[name |-> "race", userId |-> "u1", plan |-> "free", model |-> m, at |-> T0,
      total |-> PLAN_LIMITS["free"][resolveUsageTier(m)] + x] :
        m \in {"gpt-4o-mini", "claude"}, x \in 1 .. ExtraCalls}

RaceInit ==
    /\ InitBase
    /\ scenario \in RaceScenarios
    /\ stats = [NoStats EXCEPT !.pending = scenario.total]

\* a caller invokes consumeUsage; the transaction body runs up to its tx.get
RaceBegin(i) ==
    /\ calls[i].op = "idle"
    /\ stats.pending > 0
    /\ calls' = [calls EXCEPT ![i] =
                    Call("consume", scenario.userId, scenario.plan, scenario.model,
                         scenario.at, "monthly",
                         store[IF layout = "embedded"
                               THEN UserRef(scenario.userId)
                               ELSE UsageRef(scenario.userId, formatPeriodKey(scenario.at))])]
    /\ stats' = [stats EXCEPT !.pending = @ - 1]
    /\ UNCHANGED <<layout, store, clock, scenario, last, reqs, login>>

\* the rest of the body runs, the transaction commits and the call returns
RaceReturn(i) ==
    /\ calls[i].op = "consume"
    /\ calls[i].phase = "read"
    /\ \E out \in {Body(calls[i])}, ref \in {TxRef(calls[i])} :
           /\ store' = IF out.write THEN [store EXCEPT ![ref] = Doc(out.data)] ELSE store
           /\ calls' = IF out.write THEN AfterWrite(calls, i, ref) ELSE AfterReturn(calls, i)
           /\ stats' = [stats EXCEPT
                          !.allowed  = IF ~out.throws /\ out.result.allowed THEN @ + 1 ELSE @,
                          !.rejected = IF ~out.throws /\ ~out.result.allowed THEN @ + 1 ELSE @,
                          !.thrown   = IF out.throws THEN @ + 1 ELSE @,
                          !.conflict = @ \/ (out.write /\ Conflicted(calls, i, ref))]
           /\ last' = [op |-> "consume", call |-> calls[i], out |-> out]
    /\ UNCHANGED <<layout, clock, scenario, reqs, login>>

RaceNext ==
    \E i \in Callers : RaceBegin(i) \/ TxRetry(i) \/ RaceReturn(i)

SpecRace == RaceInit /\ [][RaceNext]_vars

\* The race under fair scheduling: the event loop runs every continuation
\* that stays ready (the call's start, the rest of a transaction body), and
\* the store runs an invalidated transaction again.
SpecRaceFair ==
    /\ RaceInit
    /\ [][RaceNext]_vars
    /\ WF_vars(RaceNext)

\* the limit L of the scenario's plan and tier
ScenarioLimit == PLAN_LIMITS[scenario.plan][resolveUsageTier(scenario.model)]
RaceStored ==
    StoredCount(scenario.userId, formatPeriodKey(scenario.at), resolveUsageTier(scenario.model))
RaceSettled == stats.pending = 0 /\ \A i \in Callers : calls[i].op = "idle"

\* C1: K concurrent consumeUsage calls on one (user, period, tier) with
\* limit L < K and the counter starting at 0: when all have returned,
\* exactly L were allowed, exactly K - L were rejected, and the stored
\* count is exactly L.
C1_RaceExactlyLimit ==
    RaceSettled =>
        /\ stats.allowed = ScenarioLimit
        /\ stats.rejected = scenario.total - ScenarioLimit
        /\ RaceStored = ScenarioLimit

\* C1 witness: a race on the free plan's basic tier has settled with 20
\* allowed, at least one rejected, and a conflict between two in-flight
\* transactions on the way.
C1_Witness ==
    /\ RaceSettled
    /\ ScenarioLimit = 20
    /\ stats.allowed = 20
    /\ stats.rejected >= 1
    /\ stats.conflict

---------------------------------------------------------------------------
(* The limit: one caller calls consumeUsage L + 1 times in a row for one   *)
(* (user, plan, model, instant), the counter absent at the start           *)

LimitScenarios ==
    {[name |-> "limit", userId |-> "u1", plan |-> p, model |-> m, at |-> T0,
      total |-> PLAN_LIMITS[p][resolveUsageTier(m)] + 1] :
        p \in PlanTypes, m \in {"gpt-4o-mini", "claude"}}

LimitInit ==
    /\ InitBase
    /\ scenario \in LimitScenarios
    /\ stats = [NoStats EXCEPT !.pending = scenario.total]

\* the counts stored for the scenario's period
ScenarioCounts ==
    [basic    |-> StoredCount(scenario.userId, formatPeriodKey(scenario.at), "basic"),
     advanced |-> StoredCount(scenario.userId, formatPeriodKey(scenario.at), "advanced")]

\* one whole consumeUsage call, with no other call in flight
LimitConsume ==
    /\ stats.pending > 0
    /\ LET ref  == IF layout = "embedded"
                   THEN UserRef(scenario.userId)
                   ELSE UsageRef(scenario.userId, formatPeriodKey(scenario.at))
           call == Call("consume", scenario.userId, scenario.plan, scenario.model,
                        scenario.at, "monthly", store[ref])
           out  == Body(call)
       IN  /\ store' = IF out.write THEN [store EXCEPT ![ref] = Doc(out.data)] ELSE store
           /\ stats' = [stats EXCEPT
                          !.pending  = @ - 1,
                          !.allowed  = IF ~out.throws /\ out.result.allowed THEN @ + 1 ELSE @,
                          !.rejected = IF ~out.throws /\ ~out.result.allowed THEN @ + 1 ELSE @,
                          !.thrown   = IF out.throws THEN @ + 1 ELSE @]
           /\ last' = [op |-> "consume", result |-> out.result, before |-> ScenarioCounts]
    /\ UNCHANGED <<layout, calls, clock, scenario, reqs, login>>

LimitNext == LimitConsume

SpecLimit == LimitInit /\ [][LimitNext]_vars

LimitCallsMade == scenario.total - stats.pending

\* C3: for every plan and tier with limit L, the first L consumeUsage calls
\* for one (user, period, tier) are allowed and the (L+1)-th returns
\* allowed=false with limit=L and remaining=0 and leaves both counts as
\* they were.
C3_CallAfterLimitRejected ==
    /\ LimitCallsMade <= ScenarioLimit => stats.allowed = LimitCallsMade
    /\ LimitCallsMade = ScenarioLimit + 1 =>
          /\ stats.allowed = ScenarioLimit
          /\ last.result.allowed = FALSE
          /\ last.result.limit = ScenarioLimit
          /\ last.result.remaining = 0
          /\ ScenarioCounts = last.before
          /\ last.result.counts = last.before

\* C3 witness: on the pro plan the 5001st basic call has been rejected
\* after 5000 allowed ones.
C3_Witness ==
    /\ scenario.plan = "pro"
    /\ ScenarioLimit = 5000
    /\ stats.allowed = 5000
    /\ stats.rejected = 1
    /\ last.result.allowed = FALSE
    /\ ScenarioCounts.basic = 5000

---------------------------------------------------------------------------
(* Concurrent callers: consumeUsage, rollbackUsage and resetUsage calls of *)
(* one user with one plan, interleaved step by step, the counters absent   *)
(* at the start                                                            *)

OpsModels == {"gpt-4o-mini", "claude"}

OpsScenarios ==
    {[name |-> "ops", userId |-> "u1", plan |-> p, model |-> "gpt-4o-mini", at |-> T0,
      total |-> 0] : p \in {"free"}}

OpsInit ==
    /\ InitBase
    /\ scenario \in OpsScenarios
    /\ stats = NoStats

\* a caller invokes consumeUsage or rollbackUsage, or resetUsage where it is
\* a transaction; the body runs up to its tx.get
OpsBegin(i) ==
    /\ calls[i].op = "idle"
    /\ \E op \in {"consume", "rollback", "reset"}, m \in OpsModels, reason \in ResetReasons :
          /\ op = "reset" => layout = "embedded" /\ m = scenario.model
          /\ op # "reset" => reason = "monthly"
          /\ LET c == Call(op, scenario.userId, scenario.plan, m, scenario.at, reason, NoDoc)
             IN  calls' = [calls EXCEPT ![i] = [c EXCEPT !.snap = store[TxRef(c)]]]
    /\ UNCHANGED <<layout, store, clock, scenario, stats, last, reqs, login>>

\* the rest of the body runs, the transaction commits and the call returns
OpsReturn(i) ==
    /\ calls[i].op # "idle"
    /\ calls[i].phase = "read"
    /\ LET out == Body(calls[i])
           ref == TxRef(calls[i])
       IN  /\ store' = IF out.write THEN [store EXCEPT ![ref] = Doc(out.data)] ELSE store
           /\ calls' = IF out.write THEN AfterWrite(calls, i, ref) ELSE AfterReturn(calls, i)
           /\ last' = [op      |-> calls[i].op,
                       tier    |-> resolveUsageTier(calls[i].model),
                       wrote   |-> out.write,
                       allowed |-> calls[i].op = "consume" /\ out.result.allowed]
    /\ UNCHANGED <<layout, clock, scenario, stats, reqs, login>>

\* resetUsage where it is a plain docRef.set: one atomic write
OpsResetSet ==
    /\ layout = "perDoc"
    /\ \E reason \in ResetReasons :
          LET c   == Call("reset", scenario.userId, scenario.plan, scenario.model,
                          scenario.at, reason, NoDoc)
              ref == TxRef(c)
              out == Body([c EXCEPT !.snap = store[ref]])
          IN  /\ store' = [store EXCEPT ![ref] = Doc(out.data)]
              /\ calls' = AfterWrite(calls, 0, ref)
              /\ last' = [op |-> "reset", tier |-> "basic", wrote |-> TRUE, allowed |-> FALSE]
    /\ UNCHANGED <<layout, clock, scenario, stats, reqs, login>>

OpsNext ==
    \/ \E i \in Callers : OpsBegin(i) \/ TxRetry(i) \/ OpsReturn(i)
    \/ OpsResetSet

SpecOps == OpsInit /\ [][OpsNext]_vars

\* every counter stored for the user, in the layout in use
AllCounters(userId) ==
    IF layout = "embedded"
    THEN IF store[UserRef(userId)].exists
         THEN {UsageField(store[UserRef(userId)].data)[k] :
                    k \in 1 .. Len(UsageField(store[UserRef(userId)].data))}
         ELSE {}
    ELSE {store[UsageRef(userId, p)].data :
            p \in {q \in PeriodKeys : store[UsageRef(userId, q)].exists}}

\* C2: from absent counters, under any interleaving of consumeUsage,
\* rollbackUsage and resetUsage calls of one user with one plan P, no stored
\* count of any period exceeds P's limit for its tier.
C2_CountsWithinLimits ==
    \A c \in AllCounters(scenario.userId) :
        /\ c.basicCount <= PLAN_LIMITS[scenario.plan]["basic"]
        /\ c.advancedCount <= PLAN_LIMITS[scenario.plan]["advanced"]

\* C2 witness: the basic count stands at the free plan's limit, a
\* consumeUsage has just been rejected there, and another call is in flight.
C2_Witness ==
    /\ ScenarioCounts.basic = PLAN_LIMITS[scenario.plan]["basic"]
    /\ last.op = "consume" /\ ~last.allowed /\ last.tier = "basic"
    /\ \E i \in Callers : calls[i].op = "rollback"

\* C9: basicCount and advancedCount are >= 0 in every reachable state,
\* however many more rollbackUsage calls than consumptions are made and
\* however they interleave with consumeUsage and resetUsage.
C9_CountsNeverNegative ==
    \A c \in AllCounters(scenario.userId) :
        c.basicCount >= 0 /\ c.advancedCount >= 0

\* C9 witness: a rollbackUsage has just returned without writing on an
\* existing counter whose count for its tier is 0.
C9_Witness ==
    /\ last.op = "rollback" /\ ~last.wrote
    /\ HasCounter(scenario.userId, formatPeriodKey(scenario.at))
    /\ ScenarioCounts[last.tier] = 0
    /\ ScenarioCounts.basic = 0

---------------------------------------------------------------------------
(* One caller at a time: whole consumeUsage, rollbackUsage and resetUsage  *)
(* calls of one user, in any order, for instants of two calendar months    *)

SeqScenarios ==
    {[name |-> "seq", userId |-> "u1", plan |-> "free", model |-> "gpt-4o-mini",
      at |-> T0, total |-> 0],
     [name |-> "seq", userId |-> "u1", plan |-> "pro", model |-> "claude",
      at |-> T0, total |-> 0]}

SeqInit ==
    /\ InitBase
    /\ scenario \in SeqScenarios
    /\ stats = NoStats

SeqTier == resolveUsageTier(scenario.model)

\* the store after the whole call c has run against it
SeqRun(c) ==
    LET ref == TxRef(c)
        out == Body([c EXCEPT !.snap = store[ref]])
    IN  [store |-> IF out.write THEN [store EXCEPT ![ref] = Doc(out.data)] ELSE store,
         out   |-> out]

SeqConsume ==
    \E d \in Dates :
        LET c == Call("consume", scenario.userId, scenario.plan, scenario.model, d,
                      "monthly", NoDoc)
            r == SeqRun(c)
        IN  /\ StoredCount(scenario.userId, formatPeriodKey(d), SeqTier) < SeqCountCap
            /\ store' = r.store
            /\ last' = [op |-> "consume", at |-> d, reason |-> "monthly",
                        before |-> StoredCount(scenario.userId, formatPeriodKey(d), SeqTier)]
            /\ UNCHANGED <<layout, calls, clock, scenario, stats, reqs, login>>

SeqRollback ==
    \E d \in Dates :
        LET c == Call("rollback", scenario.userId, scenario.plan, scenario.model, d,
                      "monthly", NoDoc)
            r == SeqRun(c)
        IN  /\ store' = r.store
            /\ last' = [op |-> "rollback", at |-> d, reason |-> "monthly",
                        before |-> StoredCount(scenario.userId, formatPeriodKey(d), SeqTier)]
            /\ UNCHANGED <<layout, calls, clock, scenario, stats, reqs, login>>

SeqReset ==
    \E d \in Dates, reason \in ResetReasons :
        LET c == Call("reset", scenario.userId, scenario.plan, scenario.model, d,
                      reason, NoDoc)
            r == SeqRun(c)
        IN  /\ store' = r.store
            /\ last' = [op |-> "reset", at |-> d, reason |-> reason,
                        before |-> StoredCount(scenario.userId, formatPeriodKey(d), SeqTier)]
            /\ UNCHANGED <<layout, calls, clock, scenario, stats, reqs, login>>

SeqNext == SeqConsume \/ SeqRollback \/ SeqReset

SpecSeq == SeqInit /\ [][SeqNext]_vars

\* C10: after resetUsage(user, plan, reason, resetDate), whatever the counts
\* were, the counter of the period containing resetDate exists and has
\* basicCount = 0, advancedCount = 0, lastResetReason = reason and
\* lastResetAt = resetDate.
C10_ResetZeroesAndStamps ==
    last.op = "reset" =>
        /\ HasCounter(scenario.userId, formatPeriodKey(last.at))
        /\ LET c == StoredCounter(scenario.userId, formatPeriodKey(last.at))
           IN  /\ c.basicCount = 0
               /\ c.advancedCount = 0
               /\ c.lastResetReason = last.reason
               /\ c.lastResetAt = last.at
               /\ c.periodKey = formatPeriodKey(last.at)

\* C10 witness: a reset for reason "subscription" has just run on a counter
\* whose basicCount was 5, in the second of the two months.
C10_Witness ==
    /\ last.op = "reset"
    /\ last.reason = "subscription"
    /\ last.before = 5
    /\ SeqTier = "basic"
    /\ last.at = T0 + TicksPerMonth
    /\ StoredCount(scenario.userId, formatPeriodKey(last.at), "basic") = 0

---------------------------------------------------------------------------
(* The billable request handlers of api/generate.ts: POST /, /summarize    *)
(* and /quick-reply.  Request r runs its tracker calls in caller slot r.   *)
(* History fields of a request: consumed (how its consumeUsage ended), llm *)
(* (the LLM was invoked), rollbacks (rollbackUsage calls issued), rolled   *)
(* (how its rollbackUsage ended), net (its increments minus decrements),   *)
(* before (the tier count of its period when it arrived).                  *)

Endpoints == {"generate", "summarize", "quick-reply"}

\* the model a handler bills: settings.aiModel of the body, or its constant
BilledModels(endpoint) ==
    IF endpoint = "generate" THEN {"gpt-4o-mini", "claude"}
    ELSE IF endpoint = "summarize" THEN {"gpt-4o-mini"}
    ELSE {"gpt-5-nano"}

\* getUserPlanType: the plan of the user document, "free" when there is none
getUserPlanType(userId) ==
    IF store[UserRef(userId)].exists
    THEN resolvePlanType(store[UserRef(userId)].data.planType)
    ELSE "free"

HandlerScenarios ==
    {[name |-> "handler", userId |-> "u1", plan |-> p, model |-> "gpt-4o-mini",
      at |-> T0, total |-> 0, userDoc |-> e] : p \in {"free", "pro"}, e \in BOOLEAN}

HandlerInit ==
    /\ layout \in Layouts
    /\ scenario \in HandlerScenarios
    /\ store = [ref \in DocRefs |->
                  IF ref[2] = "user" /\ scenario.userDoc
                  THEN Doc([NewUserData(ref[1]) EXCEPT !.planType = scenario.plan])
                  ELSE NoDoc]
    /\ calls = [i \in Callers |-> Idle]
    /\ clock = T0
    /\ stats = NoStats
    /\ last = NoLast
    /\ reqs = [r \in Callers |-> NoReq]
    /\ login = NoLogin

\* a transaction that failed: the store is unavailable, the call rejects
Thrown == Outcome(TRUE, FALSE, <<>>, Void)

\* the handler after consumeUsage as a plausible slip: the result's allowed
\* flag not looked at
afterConsumeNoCheck(req, out) ==
    IF out.throws
    THEN [req EXCEPT !.consumed = "threw", !.pc = "catch"]
    ELSE [req EXCEPT !.consumed = IF out.result.allowed THEN "allowed" ELSE "rejected",
                     !.net = IF out.result.allowed THEN @ + 1 ELSE @,
                     !.llm = TRUE, !.pc = "llm"]

\* the handler after consumeUsage as a plausible slip: a failure to verify
\* the quota swallowed and the request let through
afterConsumeFailOpen(req, out) ==
    IF out.throws
    THEN [req EXCEPT !.consumed = "threw", !.llm = TRUE, !.pc = "llm"]
    ELSE IF ~out.result.allowed
    THEN [req EXCEPT !.consumed = "rejected", !.status = 429, !.pc = "done"]
    ELSE [req EXCEPT !.consumed = "allowed", !.net = @ + 1, !.llm = TRUE, !.pc = "llm"]

\* the handler from the return of consumeUsage to its next await: a throw
\* enters the catch block, a rejection answers 429, otherwise the LLM is
\* invoked
afterConsume(req, out) ==
    IF out.throws
    THEN [req EXCEPT !.consumed = "threw", !.pc = "catch"]
    ELSE IF ~out.result.allowed
    THEN [req EXCEPT !.consumed = "rejected", !.status = 429, !.pc = "done"]
    ELSE [req EXCEPT !.consumed = "allowed", !.net = @ + 1, !.llm = TRUE, !.pc = "llm"]

\* the catch block up to its await: rollbackUsage(userId, model, new Date())
\* is invoked and runs up to its tx.get
catchRollback(req) ==
    [req EXCEPT !.pc = "rollback", !.rollbacks = @ + 1, !.rolledAt = clock]

RollbackCall(req, st) ==
    LET c == Call("rollback", req.userId, req.planType, req.model, clock, "monthly", NoDoc)
    IN  [c EXCEPT !.snap = st[TxRef(c)]]

\* a request arrives and passes validation: requestedAt = new Date(), then
\* the handler awaits getUserPlanType
ReqStart(r) ==
    /\ reqs[r].pc = "new"
    /\ \E e \in Endpoints : \E m \in BilledModels(e) :
          reqs' = [reqs EXCEPT ![r] =
                     [pc |-> "plan", endpoint |-> e, userId |-> scenario.userId,
                      model |-> m, requestedAt |-> clock, planType |-> "free",
                      consumed |-> "none", llm |-> FALSE, rollbacks |-> 0,
                      rolled |-> "none", rolledAt |-> clock, status |-> 0, net |-> 0,
                      before |-> StoredCount(scenario.userId, formatPeriodKey(clock),
                                             resolveUsageTier(m))]]
    /\ UNCHANGED <<layout, store, calls, clock, scenario, stats, last, login>>

\* getUserPlanType returns; consumeUsage is invoked and runs up to its tx.get
ReqConsumeBegin(r) ==
    /\ reqs[r].pc = "plan"
    /\ LET plan == getUserPlanType(reqs[r].userId)
           c    == Call("consume", reqs[r].userId, plan, reqs[r].model,
                        reqs[r].requestedAt, "monthly", NoDoc)
       IN  /\ reqs' = [reqs EXCEPT ![r] = [@ EXCEPT !.pc = "consume", !.planType = plan]]
           /\ calls' = [calls EXCEPT ![r] = [c EXCEPT !.snap = store[TxRef(c)]]]
    /\ UNCHANGED <<layout, store, clock, scenario, stats, last, login>>

\* consumeUsage ends with outcome out; the handler runs to its next await
ReqAfterConsume(r, out, cs) ==
    LET req == afterConsume(reqs[r], out)
    IN  IF req.pc = "catch"
        THEN /\ reqs' = [reqs EXCEPT ![r] = catchRollback(req)]
             /\ calls' = [cs EXCEPT ![r] = RollbackCall(req, store')]
        ELSE /\ reqs' = [reqs EXCEPT ![r] = req]
             /\ calls' = cs

\* the consumeUsage transaction commits and returns
ReqConsumeReturn(r) ==
    /\ reqs[r].pc = "consume"
    /\ calls[r].phase = "read"
    /\ LET out == Body(calls[r])
           ref == TxRef(calls[r])
       IN  /\ store' = IF out.write THEN [store EXCEPT ![ref] = Doc(out.data)] ELSE store
           /\ ReqAfterConsume(r, out,
                 IF out.write THEN AfterWrite(calls, r, ref) ELSE AfterReturn(calls, r))
    /\ UNCHANGED <<layout, clock, scenario, stats, last, login>>

\* the consumeUsage transaction fails: the store is unavailable
ReqConsumeFail(r) ==
    /\ reqs[r].pc = "consume"
    /\ store' = store
    /\ ReqAfterConsume(r, Thrown, AfterReturn(calls, r))
    /\ UNCHANGED <<layout, clock, scenario, stats, last, login>>

\* the LLM call returns: the usage is logged and the handler answers 200
ReqLlmOk(r) ==
    /\ reqs[r].pc = "llm"
    /\ reqs' = [reqs EXCEPT ![r] = [@ EXCEPT !.pc = "done", !.status = 200]]
    /\ UNCHANGED <<layout, store, calls, clock, scenario, stats, last, login>>

\* the LLM call throws: the catch block invokes rollbackUsage
ReqLlmFail(r) ==
    /\ reqs[r].pc = "llm"
    /\ reqs' = [reqs EXCEPT ![r] = catchRollback(@)]
    /\ calls' = [calls EXCEPT ![r] = RollbackCall(reqs[r], store)]
    /\ UNCHANGED <<layout, store, clock, scenario, stats, last, login>>

\* the rollbackUsage transaction commits and returns; the handler answers 500
ReqRollbackReturn(r) ==
    /\ reqs[r].pc = "rollback"
    /\ calls[r].phase = "read"
    /\ LET out == Body(calls[r])
           ref == TxRef(calls[r])
       IN  /\ store' = IF out.write THEN [store EXCEPT ![ref] = Doc(out.data)] ELSE store
           /\ calls' = IF out.write THEN AfterWrite(calls, r, ref) ELSE AfterReturn(calls, r)
           /\ reqs' = [reqs EXCEPT ![r] =
                         [@ EXCEPT !.pc = "done", !.status = 500, !.rolled = "returned",
                                   !.net = IF out.write THEN @ - 1 ELSE @]]
    /\ UNCHANGED <<layout, clock, scenario, stats, last, login>>

\* the rollbackUsage transaction fails: the error is logged and the handler
\* answers 500
ReqRollbackFail(r) ==
    /\ reqs[r].pc = "rollback"
    /\ calls' = AfterReturn(calls, r)
    /\ reqs' = [reqs EXCEPT ![r] =
                  [@ EXCEPT !.pc = "done", !.status = 500, !.rolled = "threw"]]
    /\ UNCHANGED <<layout, store, clock, scenario, stats, last, login>>

\* time passes into the next calendar month
Tick ==
    /\ clock = T0
    /\ clock' = T0 + TicksPerMonth
    /\ UNCHANGED <<layout, store, calls, scenario, stats, last, reqs, login>>

HandlerNext ==
    \/ \E r \in Callers :
          \/ ReqStart(r) \/ ReqConsumeBegin(r) \/ TxRetry(r)
          \/ ReqConsumeReturn(r) \/ ReqConsumeFail(r)
          \/ ReqLlmOk(r) \/ ReqLlmFail(r)
          \/ ReqRollbackReturn(r) \/ ReqRollbackFail(r)
    \/ Tick

SpecHandler == HandlerInit /\ [][HandlerNext]_vars

Arrived == {r \in Callers : reqs[r].pc # "new"}

\* the tier count of the period request r was charged in
ChargedCount(r) ==
    StoredCount(reqs[r].userId, formatPeriodKey(reqs[r].requestedAt),
                resolveUsageTier(reqs[r].model))

\* no request other than r has arrived: no concurrent activity on the user
Alone(r) == \A q \in Callers \ {r} : reqs[q].pc = "new"

\* C4: a request handler calls rollbackUsage at most once per request and
\* only for a request whose own consumeUsage returned allowed = true, so the
\* net effect of one request on its tier count is +1 or 0, never negative.
C4_RollbackOnlyAfterOwnConsume ==
    \A r \in Arrived :
        /\ reqs[r].rollbacks <= 1
        /\ reqs[r].rollbacks = 1 => reqs[r].consumed = "allowed"
        /\ reqs[r].net \in {0, 1}

\* C5: when consumeUsage returns allowed = false the handler answers 429
\* without invoking the LLM and without calling rollbackUsage; the LLM is
\* invoked only by a request whose consumeUsage returned allowed = true.
C5_RejectedAnswers429 ==
    \A r \in Arrived :
        /\ reqs[r].consumed = "rejected" =>
              /\ reqs[r].pc = "done" /\ reqs[r].status = 429
              /\ ~reqs[r].llm /\ reqs[r].rollbacks = 0 /\ reqs[r].net = 0
        /\ reqs[r].llm => reqs[r].consumed = "allowed"
        /\ reqs[r].status = 429 => reqs[r].consumed = "rejected"

\* a request was rejected by the quota and answered 429
C5_Witness ==
    \E r \in Arrived :
        /\ reqs[r].consumed = "rejected" /\ reqs[r].status = 429
        /\ \E q \in Arrived : reqs[q].llm

\* C6: when the LLM call fails after an allowed consumeUsage, the handler
\* calls rollbackUsage for the same user and a model of the same tier before
\* answering 500, and with no concurrent activity on that user the tier
\* count then equals its value before the request (a rollbackUsage call that
\* itself fails in the store is not held against the statement).
C6_LlmFailureRestoresCount ==
    \A r \in Arrived :
        (reqs[r].consumed = "allowed" /\ reqs[r].status = 500) =>
            /\ reqs[r].rollbacks = 1
            /\ (reqs[r].rolled = "returned" /\ Alone(r)) =>
                  ChargedCount(r) = reqs[r].before

\* C7: when consumeUsage throws (the store is unavailable, the transaction
\* fails, the user document is missing) the handler never invokes the LLM
\* and answers an error: the quota check fails closed.
C7_ConsumeFailureFailsClosed ==
    \A r \in Arrived :
        reqs[r].consumed = "threw" =>
            /\ ~reqs[r].llm
            /\ reqs[r].status \in {0, 500}
            /\ reqs[r].pc = "done" => reqs[r].status = 500

\* consumeUsage threw for every request, none invoked the LLM and all were
\* answered 500
C7_Witness ==
    \E r \in Arrived :
        /\ reqs[r].consumed = "threw" /\ reqs[r].status = 500 /\ ~reqs[r].llm
        /\ \A q \in Callers : reqs[q].pc = "done" /\ reqs[q].consumed = "threw"

---------------------------------------------------------------------------
(* userService.storeUser, run on login, next to consumeUsage calls: it     *)
(* reads the user document with a plain query and writes the whole         *)
(* document back with a plain set, outside any transaction.                *)

LoginScenarios ==
    {[name |-> "login", userId |-> "u1", plan |-> "free", model |-> "gpt-4o-mini",
      at |-> T0, total |-> PLAN_LIMITS["free"]["basic"] + x] : x \in 1 .. ExtraCalls}

LoginInit ==
    /\ InitBase
    /\ scenario \in LoginScenarios
    /\ stats = [NoStats EXCEPT !.pending = scenario.total]

\* the document storeUser writes: the data it read with the login fields
\* replaced, or a new user's defaults when the query was empty
storeUserData(snap, userId, now) ==
    IF snap.exists
    THEN [snap.data EXCEPT !.uid = userId, !.lastLoginAt = now]
    ELSE [NewUserData(userId) EXCEPT !.lastLoginAt = now]

\* storeUser up to the return of its query
StoreUserRead ==
    /\ login.pc = "idle"
    /\ login' = [pc |-> "write", userId |-> scenario.userId, now |-> clock,
                 snap |-> store[UserRef(scenario.userId)]]
    /\ UNCHANGED <<layout, store, calls, clock, scenario, stats, last, reqs>>

\* storeUser's ref.set(userData): the whole document is replaced
StoreUserWrite ==
    /\ login.pc = "write"
    /\ LET ref == UserRef(login.userId)
       IN  /\ store' = [store EXCEPT ![ref] =
                          Doc(storeUserData(login.snap, login.userId, login.now))]
           /\ calls' = AfterWrite(calls, 0, ref)
    /\ login' = NoLogin
    /\ last' = [op |-> "storeUser"]
    /\ UNCHANGED <<layout, clock, scenario, stats, reqs>>

LoginNext ==
    \/ \E i \in Callers : RaceBegin(i) \/ TxRetry(i) \/ RaceReturn(i)
    \/ StoreUserRead
    \/ StoreUserWrite

SpecLogin == LoginInit /\ [][LoginNext]_vars

\* C8: usage counts change only through the tracker's operations: storeUser
\* run concurrently with consumeUsage cannot overwrite, lose or revert a
\* committed count where the counters are embedded in the user document, so
\* the stored count is always the number of consumeUsage calls that
\* committed an increment.
C8_OnlyTrackerChangesCounts ==
    layout = "embedded" =>
        StoredCount(scenario.userId, formatPeriodKey(scenario.at),
                    resolveUsageTier(scenario.model)) = stats.allowed

---------------------------------------------------------------------------
(* The payment webhook of api/payment.ts next to whole tracker calls: on   *)
(* checkout.session.completed and on customer.subscription.updated or      *)
(* .deleted it looks the user up by email and updates the subscription     *)
(* field of the user document.                                             *)

\* the plan types a payment event carries
PaidPlans == {"pro", "unlimited"}

\* userRef.update({subscription, updatedAt}): the named fields replaced, the
\* rest of the document kept; nothing happens when the user is not found
webhookUpdate(st, userId, planType) ==
    LET ref == UserRef(userId)
    IN  IF st[ref].exists
        THEN [st EXCEPT ![ref] = Doc(MergeSet(st[ref], [planType |-> planType]))]
        ELSE st

WebhookEvent(type, planType) ==
    /\ store' = webhookUpdate(store, scenario.userId, planType)
    /\ calls' = AfterWrite(calls, 0, UserRef(scenario.userId))
    /\ last' = [op |-> type, at |-> clock, reason |-> "subscription",
                before |-> StoredCount(scenario.userId, formatPeriodKey(clock), SeqTier)]
    /\ UNCHANGED <<layout, clock, scenario, stats, reqs, login>>

\* case 'checkout.session.completed'
WebhookCheckoutCompleted ==
    \E p \in PaidPlans : WebhookEvent("checkout.session.completed", p)

\* case 'customer.subscription.updated' / 'customer.subscription.deleted'
WebhookSubscriptionChanged ==
    \E p \in PaidPlans : WebhookEvent("customer.subscription.updated", p)

WebhookNext ==
    \/ SeqConsume
    \/ SeqRollback
    \/ WebhookCheckoutCompleted
    \/ WebhookSubscriptionChanged

SpecWebhook == SeqInit /\ [][WebhookNext]_vars

\* C11: when the payment webhook has handled a checkout.session.completed
\* event, resetUsage(user, plan, "subscription") has run: the user's counts
\* of the current period are 0 right after the purchase.
C11_PurchaseResetsCounts ==
    last.op = "checkout.session.completed" =>
        \A tier \in UsageTiers :
            StoredCount(scenario.userId, formatPeriodKey(clock), tier) = 0

---------------------------------------------------------------------------
(* Whole tracker calls addressed to any user and any of two months, one    *)
(* at a time: what a call leaves alone.                                    *)

FrameDates == {T0, T0 + TicksPerMonth}

\* the stored counter of (userId, periodKey), or NoDoc when there is none
CounterAt(userId, periodKey) ==
    IF HasCounter(userId, periodKey)
    THEN Doc(StoredCounter(userId, periodKey))
    ELSE NoDoc

FrameScenarios == {sc \in SeqScenarios : sc.plan = "pro"}

FrameInit ==
    /\ InitBase
    /\ scenario \in FrameScenarios
    /\ stats = NoStats

FrameCall(op, reasons) ==
    \E u \in Users, d \in FrameDates, reason \in reasons :
        LET c == Call(op, u, scenario.plan, scenario.model, d, reason, NoDoc)
            r == SeqRun(c)
        IN  /\ op = "consume" =>
                  StoredCount(u, formatPeriodKey(d), SeqTier) < FrameCountCap
            /\ store' = r.store
            /\ last' = [op |-> op, userId |-> u, at |-> d, reason |-> reason,
                        before |-> StoredCount(u, formatPeriodKey(d), SeqTier)]
            /\ UNCHANGED <<layout, calls, clock, scenario, stats, reqs, login>>

FrameConsume == FrameCall("consume", {"monthly"})
FrameRollback == FrameCall("rollback", {"monthly"})
FrameReset == FrameCall("reset", ResetReasons)

FrameNext == FrameConsume \/ FrameRollback \/ FrameReset

SpecFrame == FrameInit /\ [][FrameNext]_vars

\* C12: a consumeUsage, rollbackUsage or resetUsage call addressed to
\* (user u, period p) leaves every counter of another period of u and every
\* counter of another user exactly as it was.
C12_OtherCountersUnchanged ==
    [][\A u \in Users, p \in PeriodKeys :
          (u # last'.userId \/ p # formatPeriodKey(last'.at)) =>
              CounterAt(u, p)' = CounterAt(u, p)]_vars

\* C12 witness: a reset addressed to u1's second month has just run while
\* u1's first month and u2's second month hold counts it must not touch.
C12_Witness ==
    /\ last.op = "reset" /\ last.userId = "u1" /\ last.at = T0 + TicksPerMonth
    /\ last.before = FrameCountCap
    /\ StoredCount("u1", formatPeriodKey(T0), SeqTier) = FrameCountCap
    /\ StoredCount("u2", formatPeriodKey(T0 + TicksPerMonth), SeqTier) = 1
    /\ StoredCount("u1", formatPeriodKey(T0 + TicksPerMonth), SeqTier) = 0

---------------------------------------------------------------------------
(* Whole tracker calls of one user under one plan with models of both      *)
(* tiers, known and unknown, one call at a time: what a consumeUsage call  *)
(* returns and writes.                                                     *)

TierScenarios ==
    {[name |-> "tier", userId |-> "u1", plan |-> p, model |-> "gpt-4o-mini",
      at |-> T0, total |-> 0] : p \in {"free", "pro"}}

TierInit ==
    /\ InitBase
    /\ scenario \in TierScenarios
    /\ stats = NoStats

TierConsume ==
    \E m \in Models, d \in Dates :
        LET c == Call("consume", scenario.userId, scenario.plan, m, d, "monthly", NoDoc)
            r == SeqRun(c)
            tier == resolveUsageTier(m)
        IN  /\ StoredCount(scenario.userId, formatPeriodKey(d), tier) < FrameCountCap
            /\ store' = r.store
            /\ last' = [op |-> "consume", model |-> m, at |-> d, reason |-> "monthly",
                        result |-> r.out.result,
                        before |-> CounterAt(scenario.userId, formatPeriodKey(d))]
            /\ UNCHANGED <<layout, calls, clock, scenario, stats, reqs, login>>

TierRollback ==
    \E m \in OpsModels, d \in Dates :
        LET c == Call("rollback", scenario.userId, scenario.plan, m, d, "monthly", NoDoc)
            r == SeqRun(c)
        IN  /\ store' = r.store
            /\ last' = [op |-> "rollback", model |-> m, at |-> d, reason |-> "monthly",
                        result |-> r.out.result,
                        before |-> CounterAt(scenario.userId, formatPeriodKey(d))]
            /\ UNCHANGED <<layout, calls, clock, scenario, stats, reqs, login>>

TierReset ==
    \E d \in Dates :
        LET c == Call("reset", scenario.userId, scenario.plan, scenario.model, d,
                      "subscription", NoDoc)
            r == SeqRun(c)
        IN  /\ store' = r.store
            /\ last' = [op |-> "reset", model |-> scenario.model, at |-> d,
                        reason |-> "subscription", result |-> r.out.result,
                        before |-> CounterAt(scenario.userId, formatPeriodKey(d))]
            /\ UNCHANGED <<layout, calls, clock, scenario, stats, reqs, login>>

TierNext == TierConsume \/ TierRollback \/ TierReset

SpecTier == TierInit /\ [][TierNext]_vars

\* the counter the last call was addressed to, as stored now
LastCounter == CounterAt(scenario.userId, formatPeriodKey(last.at))

\* C13: a consumeUsage call rejected because the tier count has reached the
\* limit returns allowed = false, remaining = 0 and the stored counts, and
\* writes nothing: the stored counter is the same in every field, and where
\* none existed for the period none exists afterwards.
C13_RejectedWritesNothing ==
    [][(last'.op = "consume" /\ ~last'.result.allowed) =>
          LET p    == formatPeriodKey(last'.at)
              tier == resolveUsageTier(last'.model)
          IN  /\ StoredCount(scenario.userId, p, tier) >= PLAN_LIMITS[scenario.plan][tier]
              /\ last'.result.remaining = 0
              /\ last'.result.counts =
                    [basic    |-> StoredCount(scenario.userId, p, "basic"),
                     advanced |-> StoredCount(scenario.userId, p, "advanced")]
              /\ store' = store]_vars

\* C13 witness: a call has just been rejected on a period without a counter
\* and there is still none, while the other period holds a counter with a
\* count.
C13_Witness ==
    /\ last.op = "consume" /\ ~last.result.allowed
    /\ last.at = T0 + TicksPerMonth
    /\ ~HasCounter(scenario.userId, formatPeriodKey(last.at))
    /\ StoredCount(scenario.userId, formatPeriodKey(T0), "basic") = 1

\* C14: an allowed consumeUsage raises the count of exactly the resolved
\* tier by exactly 1, leaves the other tier's count and the last-reset
\* fields as they were, sets updatedAt = requestedAt, and returns
\* remaining = limit - newCount together with the counts after the increment.
C14_AllowedIncrementsOneTier ==
    (last.op = "consume" /\ last.result.allowed) =>
        LET tier   == resolveUsageTier(last.model)
            other  == IF tier = "basic" THEN "advanced" ELSE "basic"
            old    == IF last.before.exists
                      THEN last.before.data
                      ELSE buildCounterSkeleton(scenario.userId, scenario.plan, last.at)
            limit  == PLAN_LIMITS[scenario.plan][tier]
        IN  /\ LastCounter.exists
            /\ TierCount(LastCounter.data, tier) = TierCount(old, tier) + 1
            /\ TierCount(LastCounter.data, other) = TierCount(old, other)
            /\ LastCounter.data.lastResetAt = old.lastResetAt
            /\ LastCounter.data.lastResetReason = old.lastResetReason
            /\ LastCounter.data.updatedAt = last.at
            /\ last.result.tier = tier
            /\ last.result.limit = limit
            /\ last.result.remaining = limit - TierCount(LastCounter.data, tier)
            /\ last.result.counts = [basic    |-> LastCounter.data.basicCount,
                                     advanced |-> LastCounter.data.advancedCount]

\* C14 witness: an advanced-tier call has just been allowed on a counter
\* that held a basic count and had been reset for a subscription at another
\* instant.
C14_Witness ==
    /\ last.op = "consume" /\ last.result.allowed
    /\ resolveUsageTier(last.model) = "advanced"
    /\ last.before.exists
    /\ last.before.data.basicCount = 1
    /\ last.before.data.lastResetReason = "subscription"
    /\ last.before.data.lastResetAt # last.at
    /\ last.result.counts = [basic |-> 1, advanced |-> 1]

\* C15: under the free plan no consumeUsage for an advanced-tier model (a
\* known advanced model, or an unrecognized one) is ever allowed: each such
\* call returns allowed = false, limit = 0, remaining = 0, and advancedCount
\* is 0 in every counter after any sequence of free-plan calls.
C15_FreeAdvancedNeverAllowed ==
    scenario.plan = "free" =>
        /\ \A c \in AllCounters(scenario.userId) : c.advancedCount = 0
        /\ (last.op = "consume" /\ toLowerCase(last.model) \notin BASIC_MODELS) =>
              /\ ~last.result.allowed
              /\ last.result.tier = "advanced"
              /\ last.result.limit = 0
              /\ last.result.remaining = 0
              /\ last.result.counts.advanced = 0

\* C15 witness: on the free plan a call for an unrecognized model has just
\* been rejected on a counter that holds a basic count.
C15_Witness ==
    /\ scenario.plan = "free"
    /\ last.op = "consume" /\ last.model = "mystery-model"
    /\ ~last.result.allowed
    /\ last.before.exists /\ last.before.data.basicCount = 1
    /\ LastCounter = last.before

---------------------------------------------------------------------------
(* The pure functions of usageTrackerService applied to inputs drawn from  *)
(* bounded sets; last holds the input and what the function returned.      *)

\* the instants of two calendar years from BaseYear on
PureInstants == 0 .. (2 * 12 * TicksPerMonth - 1)

\* limits a tier may carry (number | null) and counts a counter may hold
LimitInputs == {Null, 0, PLAN_LIMITS["free"]["basic"], PLAN_LIMITS["unlimited"]["basic"]}
PriorCounts == {0, 1, PLAN_LIMITS["free"]["basic"], PLAN_LIMITS["unlimited"]["basic"],
                PLAN_LIMITS["unlimited"]["basic"] + 1}

PureInit ==
    /\ layout = "perDoc"
    /\ store = InitStore
    /\ calls = [i \in Callers |-> Idle]
    /\ clock = T0
    /\ scenario = NoScenario
    /\ stats = NoStats
    /\ last = NoLast
    /\ reqs = [r \in Callers |-> NoReq]
    /\ login = NoLogin

\* one application per behaviour: nothing has been applied yet
PureFresh == last = NoLast

PureFrame == UNCHANGED <<layout, store, calls, clock, scenario, stats, reqs, login>>

PureResolveUsageTier ==
    /\ PureFresh
    /\ \E model \in ModelInputs :
          last' = [op |-> "resolveUsageTier", in |-> model, out |-> resolveUsageTier(model)]
    /\ PureFrame

PureResolvePlanType ==
    /\ PureFresh
    /\ \E planType \in PlanInputs :
          last' = [op |-> "resolvePlanType", in |-> planType,
                   out |-> resolvePlanType(planType)]
    /\ PureFrame

PureFormatPeriodKey ==
    /\ PureFresh
    /\ \E a \in PureInstants, b \in PureInstants :
          last' = [op |-> "formatPeriodKey", a |-> a, b |-> b,
                   keyA |-> formatPeriodKey(a), keyB |-> formatPeriodKey(b)]
    /\ PureFrame

\* the resetsOn field of the summary getUsageSummary returns as of asOf
summaryResetsOn(asOf) ==
    LET now == asOf
    IN  getNextMonthlyReset(now)

\* getNextMonthlyReset(t), and the resetsOn consumeUsage and getUsageSummary
\* return for t
PureGetNextMonthlyReset ==
    /\ PureFresh
    /\ \E t \in PureInstants :
          last' = [op |-> "getNextMonthlyReset", in |-> t,
                   out |-> getNextMonthlyReset(t),
                   key |-> formatPeriodKey(getNextMonthlyReset(t)),
                   summary |-> summaryResetsOn(t),
                   resetsOn |-> consumeDecision(buildCounterSkeleton("u1", "pro", t),
                                                "pro", "basic", t).result.resetsOn]
    /\ PureFrame

\* the check-then-increment of consumeUsage on a counter holding prior in
\* the tier, under a tier limit
PureDecide ==
    /\ PureFresh
    /\ \E limit \in LimitInputs, prior \in PriorCounts, tier \in UsageTiers :
          LET counter == WithTierCount(buildCounterSkeleton("u1", "unlimited", T0),
                                       tier, prior)
          IN  last' = [op |-> "decide", limit |-> limit, prior |-> prior, tier |-> tier,
                       result |-> decideWithLimit(counter, "unlimited", tier, limit,
                                                  T0).result]
    /\ PureFrame

PureNext ==
    \/ PureResolveUsageTier
    \/ PureResolvePlanType
    \/ PureFormatPeriodKey
    \/ PureGetNextMonthlyReset
    \/ PureDecide

SpecPure == PureInit /\ [][PureNext]_vars

\* C16: for a tier without a limit (limit = null) consumeUsage always
\* allows the call and returns limit = null and remaining = null, whatever
\* the count was before.
C16_UnlimitedTierAlwaysAllowed ==
    (last.op = "decide" /\ last.limit = Null) =>
        /\ last.result.allowed
        /\ last.result.limit = Null
        /\ last.result.remaining = Null
        /\ last.result.counts[last.tier] = last.prior + 1

\* C16 witness: a call on a tier without a limit has been allowed on a
\* counter that already held more than any limit of the catalogue.
C16_Witness ==
    /\ last.op = "decide" /\ last.limit = Null
    /\ last.prior > PLAN_LIMITS["unlimited"]["basic"]
    /\ last.result.allowed /\ last.result.remaining = Null

\* C17: resolveUsageTier is total and fail-closed: it returns basic exactly
\* when the lower-cased identifier is in the fixed basic set and advanced for
\* every other input, among them identifiers in neither set, the empty
\* string and null.
C17_ResolveUsageTierFailClosed ==
    last.op = "resolveUsageTier" =>
        /\ last.out \in UsageTiers
        /\ last.out = "basic" <=>
              (last.in # Undefined /\ toLowerCase(last.in) \in BASIC_MODELS)
        /\ last.in \in {"", Undefined, "mystery-model", "basic", "gpt-4o-mini "} =>
              last.out = "advanced"
        /\ last.in \in {"GPT-4o", "GPT-5-NANO", "default"} => last.out = "basic"

\* C17 witness: null has been resolved to the advanced tier.
C17_Witness ==
    last.op = "resolveUsageTier" /\ last.in = Undefined /\ last.out = "advanced"

\* C18: resolvePlanType is total: it returns pro or unlimited exactly when
\* the input equals "pro" or "unlimited" ignoring case, and free for every
\* other input (null, empty, unrecognized).
C18_ResolvePlanTypeTotal ==
    last.op = "resolvePlanType" =>
        /\ last.out \in PlanTypes
        /\ last.out = "pro" <=> last.in \in {"pro", "PRO", "Pro"}
        /\ last.out = "unlimited" <=> last.in \in {"unlimited", "UNLIMITED", "Unlimited"}
        /\ last.in \in {"", Undefined, "premium", "Enterprise", " pro", "FREE"} =>
              last.out = "free"

\* C18 witness: "Unlimited" has been resolved to the unlimited plan.
C18_Witness ==
    last.op = "resolvePlanType" /\ last.in = "Unlimited" /\ last.out = "unlimited"

\* the key YYYY-MM of calendar month month (0-based) of year
MonthText == <<"01", "02", "03", "04", "05", "06", "07", "08", "09", "10", "11", "12">>
KeyText(year, month) == ToString(year) \o "-" \o MonthText[month + 1]

\* two instants of the same UTC calendar month
SameMonth(a, b) ==
    getUTCFullYear(a) = getUTCFullYear(b) /\ getUTCMonth(a) = getUTCMonth(b)

\* the first and the last instant of March and the first of April of BaseYear
MarchFirst == DateUTC(BaseYear, 2)
MarchLast == DateUTC(BaseYear, 3) - 1
AprilFirst == DateUTC(BaseYear, 3)

\* C19: formatPeriodKey maps two instants of the same UTC calendar month to
\* the same key of the form YYYY-MM (month 1-based, zero-padded) and
\* instants of different months to different keys; the last and the first
\* instant of March give "YYYY-03", the first instant of April "YYYY-04".
C19_PeriodKeyPerUtcMonth ==
    last.op = "formatPeriodKey" =>
        /\ last.keyA = KeyText(getUTCFullYear(last.a), getUTCMonth(last.a))
        /\ last.keyB = KeyText(getUTCFullYear(last.b), getUTCMonth(last.b))
        /\ SameMonth(last.a, last.b) <=> last.keyA = last.keyB
        /\ (last.a = MarchLast /\ last.b = MarchFirst) =>
              last.keyA = ToString(BaseYear) \o "-03" /\ last.keyB = last.keyA
        /\ last.a = AprilFirst => last.keyA = ToString(BaseYear) \o "-04"

\* C19 witness: the last and the first instant of March have been given the
\* same key.
C19_Witness ==
    /\ last.op = "formatPeriodKey"
    /\ last.a = MarchLast /\ last.b = MarchFirst /\ last.a # last.b
    /\ last.keyA = last.keyB

\* C20: the resetsOn value for instant t is the first instant of the month
\* after t's UTC month, December rolling over to January of the next year;
\* it is strictly later than t and its period key is the immediate successor
\* of t's period key.
C20_ResetsOnNextMonthStart ==
    last.op = "getNextMonthlyReset" =>
        LET y == getUTCFullYear(last.in)
            m == getUTCMonth(last.in)
        IN  /\ last.resetsOn = last.out
            /\ last.summary = last.out
            /\ last.out > last.in
            /\ last.out - last.in <= TicksPerMonth
            /\ last.out % TicksPerMonth = 0
            /\ last.key = IF m = 11 THEN KeyText(y + 1, 0) ELSE KeyText(y, m + 1)
            /\ last.key # formatPeriodKey(last.in)

\* C20 witness: for an instant of December the value is in January of the
\* next year.
C20_Witness ==
    /\ last.op = "getNextMonthlyReset"
    /\ getUTCMonth(last.in) = 11
    /\ getUTCFullYear(last.out) = getUTCFullYear(last.in) + 1
    /\ getUTCMonth(last.out) = 0

---------------------------------------------------------------------------
(* getUsageSummary, and whole tracker calls of one user whose plan changes *)
(* from call to call.                                                      *)

\* the summary built from the loaded or synthesized counter, from "const
\* limits" on
summaryOf(counter, plan, now) ==
    LET limits == PLAN_LIMITS[plan]
    IN  [planType        |-> plan,
         periodKey       |-> counter.periodKey,
         counts          |-> [basic |-> counter.basicCount,
                              advanced |-> counter.advancedCount],
         limits          |-> [basic |-> limits.basic, advanced |-> limits.advanced],
         remaining       |-> [basic    |-> computeRemaining(limits.basic, counter.basicCount),
                              advanced |-> computeRemaining(limits.advanced,
                                                            counter.advancedCount)],
         lastResetAt     |-> counter.lastResetAt,
         lastResetReason |-> counter.lastResetReason,
         resetsOn        |-> summaryResetsOn(now)]

\* getUsageSummary, one document per period; snap is what docRef.get() gave
getUsageSummaryPerDoc(snap, userId, plan, asOf) ==
    LET periodKey == formatPeriodKey(asOf)
        now       == asOf
        counter   ==
            IF snap.exists
            THEN [snap.data EXCEPT !.periodKey   = periodKey,
                                   !.planType    = plan,
                                   !.updatedAt   = normalizeDate(snap.data.updatedAt, now),
                                   !.lastResetAt = normalizeDate(snap.data.lastResetAt, now)]
            ELSE [buildCounterSkeleton(userId, plan, now) EXCEPT !.periodKey = periodKey]
    IN  summaryOf(counter, plan, now)

\* getUsageSummary, counters embedded in the user document; snap is what
\* userQuery.get() gave
getUsageSummaryEmbedded(snap, userId, plan, asOf) ==
    LET periodKey     == formatPeriodKey(asOf)
        now           == asOf
        usageRecords  == IF snap.exists
                         THEN deserializeUsageRecords(UsageField(snap.data), userId, plan, now)
                         ELSE <<>>
        existingIndex == findIndex(usageRecords, periodKey)
        counter       ==
            IF existingIndex > 0
            THEN [usageRecords[existingIndex] EXCEPT
                     !.periodKey   = periodKey,
                     !.planType    = plan,
                     !.updatedAt   = normalizeDate(usageRecords[existingIndex].updatedAt, now),
                     !.lastResetAt = normalizeDate(usageRecords[existingIndex].lastResetAt, now)]
            ELSE [buildCounterSkeleton(userId, plan, now) EXCEPT !.periodKey = periodKey]
    IN  summaryOf(counter, plan, now)

getUsageSummary(userId, plan, asOf) ==
    IF layout = "embedded"
    THEN getUsageSummaryEmbedded(store[UserRef(userId)], userId, plan, asOf)
    ELSE getUsageSummaryPerDoc(store[UsageRef(userId, formatPeriodKey(asOf))],
                               userId, plan, asOf)

\* the plans the user moves between
ChangingPlans == {"free", "pro"}

PlanScenarios ==
    {[name |-> "plan", userId |-> "u1", plan |-> "free", model |-> "gpt-4o-mini",
      at |-> T0, total |-> 0]}

PlanInit ==
    /\ InitBase
    /\ scenario \in PlanScenarios
    /\ stats = NoStats

\* one whole consumeUsage call under the plan the user has at that moment
PlanConsume ==
    \E p \in ChangingPlans, m \in OpsModels, d \in FrameDates :
        LET c == Call("consume", scenario.userId, p, m, d, "monthly", NoDoc)
            r == SeqRun(c)
            tier == resolveUsageTier(m)
        IN  /\ StoredCount(scenario.userId, formatPeriodKey(d), tier) <= FrameCountCap
            /\ store' = r.store
            /\ last' = [op |-> "consume", plan |-> p, model |-> m, at |-> d,
                        result |-> r.out.result,
                        before |-> CounterAt(scenario.userId, formatPeriodKey(d))]
            /\ UNCHANGED <<layout, calls, clock, scenario, stats, reqs, login>>

\* one whole getUsageSummary call
PlanSummary ==
    \E p \in ChangingPlans, d \in FrameDates :
        /\ last' = [op |-> "summary", plan |-> p, model |-> scenario.model, at |-> d,
                    result |-> getUsageSummary(scenario.userId, p, d),
                    before |-> CounterAt(scenario.userId, formatPeriodKey(d))]
        /\ UNCHANGED <<layout, store, calls, clock, scenario, stats, reqs, login>>

PlanNext == PlanConsume \/ PlanSummary

SpecPlan == PlanInit /\ [][PlanNext]_vars

\* C21: getUsageSummary never writes to the store (every counter, an absent
\* one included, is the same before and after the call) and reports for each
\* tier remaining = max(limit - count, 0), also when the stored count
\* exceeds the limit of the plan passed in.
C21_SummaryReadOnly ==
    [][last'.op = "summary" =>
          /\ store' = store
          /\ \A tier \in UsageTiers :
                LET count == StoredCount(scenario.userId, formatPeriodKey(last'.at), tier)
                    limit == PLAN_LIMITS[last'.plan][tier]
                IN  /\ last'.result.counts[tier] = count
                    /\ last'.result.limits[tier] = limit
                    /\ last'.result.remaining[tier] =
                          (IF limit - count > 0 THEN limit - count ELSE 0)]_vars

\* C21 witness: a summary under the free plan has just been given for a
\* counter whose advanced count exceeds the free limit, and for a period
\* without a counter none has appeared.
C21_Witness ==
    /\ last.op = "summary" /\ last.plan = "free"
    /\ last.before.exists
    /\ last.before.data.advancedCount > PLAN_LIMITS["free"]["advanced"]
    /\ last.result.remaining.advanced = 0
    /\ LastCounter = last.before
    /\ \E d \in FrameDates : ~HasCounter(scenario.userId, formatPeriodKey(d))

---------------------------------------------------------------------------
(* Whole tracker calls of one user who may have no user document and has   *)
(* no counter at the start: what a call does where there is nothing yet.   *)

AbsentScenarios ==
    {[name |-> "absent", userId |-> "u1", plan |-> "pro", model |-> "gpt-4o-mini",
      at |-> T0, total |-> 0, userDoc |-> e] : e \in BOOLEAN}

AbsentInit ==
    /\ layout \in Layouts
    /\ scenario \in AbsentScenarios
    /\ store = [ref \in DocRefs |->
                  IF ref[2] = "user" /\ scenario.userDoc
                  THEN Doc(NewUserData(ref[1]))
                  ELSE NoDoc]
    /\ calls = [i \in Callers |-> Idle]
    /\ clock = T0
    /\ stats = NoStats
    /\ last = NoLast
    /\ reqs = [r \in Callers |-> NoReq]
    /\ login = NoLogin

AbsentCall(op, reasons) ==
    \E m \in OpsModels, d \in FrameDates, reason \in reasons :
        LET c == Call(op, scenario.userId, scenario.plan, m, d, reason, NoDoc)
            r == SeqRun(c)
        IN  /\ op = "consume" =>
                  StoredCount(scenario.userId, formatPeriodKey(d), resolveUsageTier(m))
                      < FrameCountCap
            /\ store' = r.store
            /\ last' = [op |-> op, model |-> m, at |-> d, reason |-> reason,
                        throws |-> r.out.throws, wrote |-> r.out.write,
                        before |-> CounterAt(scenario.userId, formatPeriodKey(d))]
            /\ UNCHANGED <<layout, calls, clock, scenario, stats, reqs, login>>

AbsentConsume == AbsentCall("consume", {"monthly"})
AbsentRollback == AbsentCall("rollback", {"monthly"})
AbsentReset == AbsentCall("reset", ResetReasons)

AbsentNext == AbsentConsume \/ AbsentRollback \/ AbsentReset

SpecAbsent == AbsentInit /\ [][AbsentNext]_vars

\* C22: resetUsage for a (user, period) that has no counter does not fail
\* and creates a counter with basicCount = 0, advancedCount = 0 and the
\* reason given.
C22_ResetCreatesAbsentCounter ==
    (last.op = "reset" /\ ~last.before.exists) =>
        /\ ~last.throws
        /\ LastCounter.exists
        /\ LastCounter.data.basicCount = 0
        /\ LastCounter.data.advancedCount = 0
        /\ LastCounter.data.lastResetReason = last.reason

\* C23: rollbackUsage on a (user, period) with no counter, or whose resolved
\* tier count is already 0, writes nothing: no counter is created, no field
\* of an existing counter changes, and no error is raised.
C23_RollbackOnNothingIsNoOp ==
    [][(/\ last'.op = "rollback"
        /\ StoredCount(scenario.userId, formatPeriodKey(last'.at),
                       resolveUsageTier(last'.model)) = 0) =>
          /\ ~last'.throws
          /\ ~last'.wrote
          /\ store' = store]_vars

\* C23 witness: rollbacks have run on a period without a counter, which
\* still has none, and the last one on a counter whose tier count was 0
\* while its other tier held a count.
C23_Witness ==
    /\ last.op = "rollback" /\ resolveUsageTier(last.model) = "advanced"
    /\ last.before.exists
    /\ last.before.data.advancedCount = 0 /\ last.before.data.basicCount = 1
    /\ LastCounter = last.before
    /\ \E d \in FrameDates : ~HasCounter(scenario.userId, formatPeriodKey(d))

---------------------------------------------------------------------------
(* Whole consumeUsage calls of one free-plan user for instants of two      *)
(* calendar months, up to the limit and beyond, with no resetUsage call.   *)

RolloverScenarios ==
    {[name |-> "rollover", userId |-> "u1", plan |-> "free", model |-> "gpt-4o-mini",
      at |-> T0, total |-> 0]}

RolloverInit ==
    /\ InitBase
    /\ scenario \in RolloverScenarios
    /\ stats = NoStats

RolloverConsume ==
    \E d \in Dates :
        LET c == Call("consume", scenario.userId, scenario.plan, scenario.model, d,
                      "monthly", NoDoc)
            r == SeqRun(c)
        IN  /\ store' = r.store
            /\ last' = [op |-> "consume", model |-> scenario.model, at |-> d,
                        result |-> r.out.result,
                        before |-> CounterAt(scenario.userId, formatPeriodKey(d))]
            /\ UNCHANGED <<layout, calls, clock, scenario, stats, reqs, login>>

RolloverNext == RolloverConsume

SpecRollover == RolloverInit /\ [][RolloverNext]_vars

\* C24: the first consumeUsage of a user in a new UTC month starts from
\* counts 0/0 whatever the counts of the other month are (a user at the
\* limit in one month is allowed in the next), with no resetUsage call, and
\* the other month's counter stays as it is.
C24_NewMonthStartsFromZero ==
    [][(last'.op = "consume" /\ ~last'.before.exists) =>
          /\ last'.result.allowed
          /\ last'.result.counts = [basic |-> 1, advanced |-> 0]
          /\ last'.result.remaining = PLAN_LIMITS[scenario.plan]["basic"] - 1
          /\ \A p \in PeriodKeys \ {formatPeriodKey(last'.at)} :
                CounterAt(scenario.userId, p)' = CounterAt(scenario.userId, p)]_vars

\* C24 witness: with the first month's counter at the limit, the first call
\* of the next month has just been allowed.
C24_Witness ==
    /\ last.op = "consume" /\ ~last.before.exists /\ last.result.allowed
    /\ last.at = T0 + TicksPerMonth
    /\ StoredCount(scenario.userId, formatPeriodKey(T0), "basic")
          = PLAN_LIMITS[scenario.plan]["basic"]
    /\ StoredCount(scenario.userId, formatPeriodKey(last.at), "basic") = 1

---------------------------------------------------------------------------
(* resetUsage next to consumeUsage and rollbackUsage calls in flight on    *)
(* the same (user, period).  stats.serial is the document a serial run of  *)
(* the calls, in the order of their commits, would have produced;          *)
(* stats.raced records that a reset took effect while a consumeUsage or    *)
(* rollbackUsage transaction was between its tx.get and its commit.        *)

SerialScenarios ==
    {[name |-> "serial", userId |-> "u1", plan |-> "free", model |-> "gpt-4o-mini",
      at |-> T0, total |-> 0]}

\* the one document the calls of the scenario read and write
SerialRef ==
    IF layout = "embedded"
    THEN UserRef(scenario.userId)
    ELSE UsageRef(scenario.userId, formatPeriodKey(scenario.at))

SerialInit ==
    /\ InitBase
    /\ scenario \in SerialScenarios
    /\ stats = [serial |-> InitStore[SerialRef], raced |-> FALSE]

\* the serial document after the call has run alone against it
SerialAfter(call) ==
    LET out == Body([call EXCEPT !.snap = stats.serial])
    IN  IF out.write THEN Doc(out.data) ELSE stats.serial

\* the transaction of caller i commits and the call returns
SerialReturn(i) ==
    /\ calls[i].op # "idle"
    /\ calls[i].phase = "read"
    /\ LET out == Body(calls[i])
           ref == TxRef(calls[i])
       IN  /\ store' = IF out.write THEN [store EXCEPT ![ref] = Doc(out.data)] ELSE store
           /\ calls' = IF out.write THEN AfterWrite(calls, i, ref) ELSE AfterReturn(calls, i)
           /\ stats' = [serial |-> SerialAfter(calls[i]),
                        raced  |-> stats.raced \/
                                   (calls[i].op = "reset" /\ Conflicted(calls, i, ref))]
           /\ last' = [op      |-> calls[i].op,
                       tier    |-> resolveUsageTier(calls[i].model),
                       wrote   |-> out.write,
                       allowed |-> calls[i].op = "consume" /\ out.result.allowed]
    /\ UNCHANGED <<layout, clock, scenario, reqs, login>>

\* resetUsage where it is a plain docRef.set: one atomic write
SerialResetSet ==
    /\ layout = "perDoc"
    /\ \E reason \in ResetReasons :
          LET c   == Call("reset", scenario.userId, scenario.plan, scenario.model,
                          scenario.at, reason, NoDoc)
              ref == TxRef(c)
              out == Body([c EXCEPT !.snap = store[ref]])
          IN  /\ store' = [store EXCEPT ![ref] = Doc(out.data)]
              /\ calls' = AfterWrite(calls, 0, ref)
              /\ stats' = [serial |-> SerialAfter(c),
                           raced  |-> stats.raced \/ Conflicted(calls, 0, ref)]
              /\ last' = [op |-> "reset", tier |-> "basic", wrote |-> TRUE, allowed |-> FALSE]
    /\ UNCHANGED <<layout, clock, scenario, reqs, login>>

SerialNext ==
    \/ \E i \in Callers : OpsBegin(i) \/ TxRetry(i) \/ SerialReturn(i)
    \/ SerialResetSet

SpecSerial == SerialInit /\ [][SerialNext]_vars

\* C25: when resetUsage runs concurrently with consumeUsage or rollbackUsage
\* on the same (user, period), the stored counter is always the outcome of
\* the serial order in which the calls committed: no consume or rollback in
\* flight writes back a value computed from the counts before a reset that
\* has taken effect, so the reset is never lost.
C25_ResetSerializes ==
    store[SerialRef] = stats.serial

\* C25 witness: a reset took effect while a consumeUsage or rollbackUsage
\* was in flight, and a consumeUsage has since committed an increment on the
\* counter the reset zeroed.
C25_Witness ==
    /\ stats.raced
    /\ last.op = "consume" /\ last.wrote
    /\ StoredCount(scenario.userId, formatPeriodKey(scenario.at), "basic") = 1
    /\ \A i \in Callers : calls[i].op = "idle"

---------------------------------------------------------------------------
---------------------------------------------------------------------------
(* The quota across whole requests of one period: a free-plan user whose   *)
(* earlier requests of the month were served one after another, then       *)
(* concurrent requests, any of which may fail at any step.                 *)

\* the store after n consumeUsage calls of the scenario's user, plan and
\* model at T0, run one after another on the store st
RECURSIVE StoreAfterServed(_, _)
StoreAfterServed(st, n) ==
    IF n = 0 THEN st
    ELSE LET prev == StoreAfterServed(st, n - 1)
             c    == Call("consume", scenario.userId, scenario.plan, scenario.model,
                          T0, "monthly", NoDoc)
             ref  == TxRef(c)
             out  == Body([c EXCEPT !.snap = prev[ref]])
         IN  IF out.write THEN [prev EXCEPT ![ref] = Doc(out.data)] ELSE prev

\* served: the requests of the period answered 200 before the concurrent ones
QuotaScenarios ==
    {[name |-> "quota", userId |-> "u1", plan |-> "free", model |-> "gpt-4o-mini",
      at |-> T0, total |-> 0, userDoc |-> TRUE, served |-> n] :
        n \in {PLAN_LIMITS["free"]["basic"] - 1, PLAN_LIMITS["free"]["basic"]}}

QuotaInit ==
    /\ layout \in Layouts
    /\ scenario \in QuotaScenarios
    /\ store = StoreAfterServed(
                  [ref \in DocRefs |->
                     IF ref[2] = "user"
                     THEN Doc([NewUserData(ref[1]) EXCEPT !.planType = scenario.plan])
                     ELSE NoDoc],
                  scenario.served)
    /\ calls = [i \in Callers |-> Idle]
    /\ clock = T0
    /\ stats = NoStats
    /\ last = NoLast
    /\ reqs = [r \in Callers |-> NoReq]
    /\ login = NoLogin

\* the requests of one period: the clock stays within the month
QuotaNext ==
    \E r \in Callers :
        \/ ReqStart(r) \/ ReqConsumeBegin(r) \/ TxRetry(r)
        \/ ReqConsumeReturn(r) \/ ReqConsumeFail(r)
        \/ ReqLlmOk(r) \/ ReqLlmFail(r)
        \/ ReqRollbackReturn(r) \/ ReqRollbackFail(r)

SpecQuota == QuotaInit /\ [][QuotaNext]_vars

\* the requests of the period answered 200 for the tier so far
ServedOk(tier) ==
    (IF tier = resolveUsageTier(scenario.model) THEN scenario.served ELSE 0)
    + Cardinality({r \in Callers :
                     /\ reqs[r].pc = "done"
                     /\ reqs[r].status = 200
                     /\ resolveUsageTier(reqs[r].model) = tier})

\* C27: for a user on a fixed plan with limit L for a tier and no
\* resetUsage, the number of requests of one period answered 200 for that
\* tier never exceeds L, whatever the interleaving and whichever requests
\* fail (consumeUsage throwing, the LLM call failing, rollbackUsage failing).
C27_ServedWithinLimit ==
    \A tier \in UsageTiers : ServedOk(tier) <= PLAN_LIMITS[scenario.plan][tier]

---------------------------------------------------------------------------
\* C28: when generation fails after the request's consumeUsage was allowed,
\* the handler's rollbackUsage addresses the counter of the same (user,
\* period, tier) the consumeUsage incremented, also when the UTC month
\* changes between the consume (at requestedAt) and the failure: it never
\* addresses, and so never decrements, another period's counter.
C28_RollbackSamePeriod ==
    \A r \in Callers :
        (reqs[r].pc \in {"rollback", "done"} /\ reqs[r].consumed = "allowed"
           /\ reqs[r].rollbacks > 0)
        => /\ calls[r].op = "rollback" =>
                 /\ calls[r].userId = reqs[r].userId
                 /\ resolveUsageTier(calls[r].model) = resolveUsageTier(reqs[r].model)
                 /\ formatPeriodKey(calls[r].at) = formatPeriodKey(reqs[r].requestedAt)
           /\ formatPeriodKey(reqs[r].rolledAt) = formatPeriodKey(reqs[r].requestedAt)

---------------------------------------------------------------------------
\* C29: consumeUsage applies the limit of the plan passed in the call,
\* never the planType stored in the counter, and counts carry over across a
\* plan change: with the stored count at or above the limit of the plan
\* passed the call is rejected with remaining 0 and nothing is written (the
\* count keeps its value); below it, the call is allowed and the count
\* continues from the stored one.
C29_LimitOfPlanPassed ==
    [][\A d \in FrameDates, m \in OpsModels :
          (last'.op = "consume" /\ last'.at = d /\ last'.model = m) =>
          LET tier   == resolveUsageTier(m)
              pk     == formatPeriodKey(d)
              before == StoredCount(scenario.userId, pk, tier)
              after  == StoredCount(scenario.userId, pk, tier)'
              limit  == PLAN_LIMITS[last'.plan][tier]
          IN  /\ last'.result.limit = limit
              /\ last'.result.planType = last'.plan
              /\ last'.result.allowed = (before < limit)
              /\ before >= limit =>
                    /\ last'.result.remaining = 0
                    /\ after = before
                    /\ store' = store
              /\ before < limit =>
                    /\ after = before + 1
                    /\ last'.result.counts[tier] = before + 1
                    /\ last'.result.remaining = limit - (before + 1)]_vars

\* C29 witness: a counter written under the pro plan with one advanced
\* request has just been consumed against under the free plan: rejected
\* with remaining 0, the count still 1 and the stored planType still pro.
C29_Witness ==
    /\ last.op = "consume"
    /\ last.plan = "free"
    /\ resolveUsageTier(last.model) = "advanced"
    /\ last.before.exists
    /\ last.before.data.planType = "pro"
    /\ last.before.data.advancedCount = 1
    /\ ~last.result.allowed
    /\ last.result.remaining = 0
    /\ StoredCount(scenario.userId, formatPeriodKey(last.at), "advanced") = 1
    /\ StoredCounter(scenario.userId, formatPeriodKey(last.at)).planType = "pro"

---------------------------------------------------------------------------
(* The usage array of the user document under concurrent consumeUsage,     *)
(* rollbackUsage and resetUsage calls for two months.                      *)

ArrayScenarios ==
    {[name |-> "array", userId |-> "u1", plan |-> "free", model |-> "gpt-4o-mini",
      at |-> T0, total |-> 0]}

ArrayInit ==
    /\ InitBase
    /\ layout = "embedded"
    /\ scenario \in ArrayScenarios
    /\ stats = NoStats

\* a caller invokes one of the three operations for one of the two months;
\* the transaction body runs up to its tx.get
ArrayBegin(i) ==
    /\ calls[i].op = "idle"
    /\ \E op \in {"consume", "rollback", "reset"}, d \in FrameDates :
          /\ op = "consume" =>
                StoredCount(scenario.userId, formatPeriodKey(d),
                            resolveUsageTier(scenario.model)) <= FrameCountCap
          /\ LET c == Call(op, scenario.userId, scenario.plan, scenario.model, d,
                           "monthly", NoDoc)
             IN  calls' = [calls EXCEPT ![i] = [c EXCEPT !.snap = store[TxRef(c)]]]
    /\ UNCHANGED <<layout, store, clock, scenario, stats, last, reqs, login>>

ArrayNext ==
    \E i \in Callers : ArrayBegin(i) \/ TxRetry(i) \/ OpsReturn(i)

SpecArray == ArrayInit /\ [][ArrayNext]_vars

\* the usage array stored in the user document
StoredUsage == UsageField(store[UserRef(scenario.userId)].data)

\* C30: in the layout that keeps all periods as an array in the user
\* document, the array holds at most one record per periodKey after any
\* sequence and interleaving of consumeUsage, rollbackUsage and resetUsage.
C30_OneRecordPerPeriod ==
    \A i, j \in 1 .. Len(StoredUsage) :
        StoredUsage[i].periodKey = StoredUsage[j].periodKey => i = j

\* C30 witness: the array holds a record for each of the two months, the
\* last call to return rewrote one of them in place, and another call's
\* transaction was invalidated by that write.
C30_Witness ==
    /\ Len(StoredUsage) = 2
    /\ last.op \in {"rollback", "reset"}
    /\ last.wrote
    /\ \E i \in Callers : calls[i].op # "idle" /\ calls[i].phase = "retry"

====
